---- MODULE Spec2Model ----
(***************************************************************************)
(* NoiseCaloCellsFromFileTool (k4RecCalorimeter): the noise table read     *)
(* from a ROOT file, the per-cell noise lookup getNoiseConstantPerCell,    *)
(* and the two transforms of a cell -> energy map, addRandomCellNoise and  *)
(* filterCellNoise.                                                        *)
(*                                                                         *)
(* Doubles are fixed-point integers: eta, bin edges and bin widths in one  *)
(* unit, bin contents and energies in another.  sqrt rounds down to the    *)
(* unit.  Histograms are uniform-bin TH1F objects with an underflow bin 0  *)
(* and an overflow bin nbins+1.                                            *)
(***************************************************************************)
EXTENDS Integers, Sequences, FiniteSets, TLC

\* ---------------------------------------------------------------- bounds
MaxLayers == 2      \* largest m_numRadialLayers, and the histogram names the file may hold
MaxBins == 3        \* largest GetNbinsX() of a histogram in the file
MaxOps == 2         \* calls of the tool's methods after initialize in one run

\* ------------------------------------------------------------ arithmetic
Abs(x) == IF x < 0 THEN -x ELSE x

Pow2(x) == x * x

\* sqrt on the fixed-point grid: the largest r with r*r <= n
Sqrt(n) == CHOOSE r \in 0..n : r * r <= n /\ (r + 1) * (r + 1) > n

\* ----------------------------------------------------- cell identifiers
\* A cell id is a bit field holding the layer and the eta index of the cell.
EtaMax == 2 * MaxBins + 1
EtaSpan == EtaMax + 3
Etas == (0 - 2) .. EtaMax
CellIds == 0 .. ((MaxLayers + 1) * EtaSpan - 1)

CellId(eta, layer) == layer * EtaSpan + (eta + 2)

\* decoder->get(cID, m_activeFieldName)
DecodeLayer(cID) == cID \div EtaSpan

\* m_segmentationPhiEta->eta(aCellId), m_cellPositionsTool->xyzPosition(cID).Eta()
CellEta(cID) == (cID % EtaSpan) - 2

\* ---------------------------------------------------------- histograms

\* bin content by (curve, layer, bin): distinct over bins, layers and the two curves
BinStride == MaxBins + 3
ElecValue(layer, b) == BinStride * layer + b + 1
PileupValue(layer, b) == BinStride * (MaxLayers + 1) + ElecValue(layer, b)

TH1F(n, x, w, content) == [nbins |-> n, xmin |-> x, width |-> w, content |-> content]

ElecHisto(layer, n, x, w, s) ==
  TH1F(n, x, w, [b \in 0 .. (n + 1) |-> s * ElecValue(layer, b)])

PileupHisto(layer, n, x, w) ==
  TH1F(n, x, w, [b \in 0 .. (n + 1) |-> PileupValue(layer, b)])

\* TFile::Get found no object of that name (a null pointer), and a faulting read
NoObject == TH1F(0 - 1, 0, 0, <<>>)
Fault == TH1F(0 - 2, 0, 0, <<>>)

GetNbinsX(h) == h.nbins
GetBinLowEdge(h, b) == h.xmin + (b - 1) * h.width
GetBinWidth(h, b) == h.width

\* TH1::GetBinContent clamps the index into 0 .. nbins+1 (underflow .. overflow)
BinRead(h, bin) == IF bin < 0 THEN 0 ELSE IF bin > h.nbins + 1 THEN h.nbins + 1 ELSE bin
GetBinContent(h, bin) == h.content[BinRead(h, bin)]


\* ------------------------------------------------------- segmentations
NullPtr == [type |-> "nullptr", subs |-> <<>>]
GridPhiEta == [type |-> "FCCSWGridPhiEta", subs |-> <<>>]
OtherGrid == [type |-> "CartesianGridXY", subs |-> <<>>]
Multi(subs) == [type |-> "MultiSegmentation", subs |-> subs]

\* dynamic_cast<dd4hep::DDSegmentation::FCCSWGridPhiEta*>(seg)
CastPhiEta(seg) == IF seg.type = "FCCSWGridPhiEta" THEN seg ELSE NullPtr

\* dynamic_cast<dd4hep::DDSegmentation::MultiSegmentation*>(seg)
CastMulti(seg) == IF seg.type = "MultiSegmentation" THEN seg ELSE NullPtr

\* ------------------------------------------------------------ the state
VARIABLES
  m_numRadialLayers,      \* property: number of radial layers
  m_addPileup,            \* property: add pileup noise
  m_useSeg,               \* property: take eta from the segmentation
  m_filterThreshold,      \* property: threshold in units of sigma
  m_noiseFileName,        \* property: name of the file, "" when not set
  noiseFile,              \* the ROOT file: [zombie, objects: name -> histogram or NoObject]
  readout,                \* the segmentation of the readout m_readoutName
  svc,                    \* which services and tools can be had
  m_histoElecNoiseConst,  \* std::vector<TH1F>
  m_histoPileupConst,     \* std::vector<TH1F>
  m_segmentationPhiEta,
  m_segmentationMulti,
  noiseStatus,            \* what initNoiseFromFile returned
  initStatus,             \* what initialize returned
  aCells,                 \* the caller's std::unordered_map<uint64_t, double>
  pc,                     \* the transform running on aCells, or "idle"
  order,                  \* the map's nodes in iteration order
  it,                     \* the iterator: an index into order, Len(order)+1 for end()
  cells0,                 \* aCells when the transform was called
  log,                    \* one record per evaluation of the transform's lambda
  done,                   \* the transform that returned last
  nOps,                   \* calls made after initialize
  est                     \* the last direct call of getNoiseConstantPerCell

props == <<m_numRadialLayers, m_addPileup, m_useSeg, m_filterThreshold, m_noiseFileName>>
world == <<noiseFile, readout, svc>>
table == <<m_histoElecNoiseConst, m_histoPileupConst, m_segmentationPhiEta,
           m_segmentationMulti, noiseStatus, initStatus>>
walk == <<aCells, pc, order, it, cells0, log, done, nOps>>
vars == <<props, world, table, walk, est>>

\* ------------------------------------------------------ initNoiseFromFile
HistoNames == {"elec", "pileup"} \X (1 .. MaxLayers)

\* what a dereferenced null TH1F* may be copied from, when the copy does not fault
GarbageHistos == {ElecHisto(0, 0, 0, 1, 1), ElecHisto(0, 1, 0, 1, 1)}

\* *dynamic_cast<TH1F*>(noiseFile->Get(name)): the histogram, or undefined behaviour
\* on a null pointer (a fault, or a copy of whatever lies there)
DerefGet(file, name) ==
  IF file.objects[name] = NoObject THEN {Fault} \cup GarbageHistos
  ELSE {file.objects[name]}

LoopOutcome(status, elec, pile) == [status |-> status, elec |-> elec, pile |-> pile]

\* the loop over the layers, from iteration i on, with the vectors filled so far
RECURSIVE ReadLayers(_, _, _)
ReadLayers(i, elec, pile) ==
  IF i >= m_numRadialLayers THEN {LoopOutcome("LOOPEND", elec, pile)}
  ELSE UNION {
    IF h = Fault THEN {LoopOutcome("SIGSEGV", elec, pile)}
    ELSE IF GetNbinsX(h) < 1 THEN {LoopOutcome("FAILURE", Append(elec, h), pile)}
    ELSE IF ~m_addPileup THEN ReadLayers(i + 1, Append(elec, h), pile)
    ELSE UNION {
      IF hp = Fault THEN {LoopOutcome("SIGSEGV", Append(elec, h), pile)}
      ELSE IF GetNbinsX(hp) < 1
        THEN {LoopOutcome("FAILURE", Append(elec, h), Append(pile, hp))}
      ELSE ReadLayers(i + 1, Append(elec, h), Append(pile, hp))
      : hp \in DerefGet(noiseFile, <<"pileup", i + 1>>) }
    : h \in DerefGet(noiseFile, <<"elec", i + 1>>) }

\* the checks after the loop
CountCheck(elec, pile) ==
  IF Len(elec) = 0 THEN "FAILURE"
  ELSE IF m_addPileup /\ Len(elec) # Len(pile) THEN "FAILURE"
  ELSE "SUCCESS"

\* initNoiseFromFile: the set of [status, elec, pile] it may end in
InitNoiseFromFile ==
  IF m_noiseFileName = "" THEN {LoopOutcome("FAILURE", <<>>, <<>>)}
  ELSE IF noiseFile.zombie THEN {LoopOutcome("FAILURE", <<>>, <<>>)}
  ELSE { IF o.status = "LOOPEND"
           THEN LoopOutcome(CountCheck(o.elec, o.pile), o.elec, o.pile)
           ELSE o
         : o \in ReadLayers(0, <<>>, <<>>) }

\* --------------------------------------------------------------- initialize
InitOutcome(status, noise, o, phiEta, multi) ==
  [status |-> status, noise |-> noise, elec |-> o.elec, pile |-> o.pile,
   phiEta |-> phiEta, multi |-> multi]

\* the loop over the sub-segmentations: TRUE when every one is a phi-eta grid
OnlyPhiEtaSubs(multi) ==
  \A k \in 1 .. Len(multi.subs) : multi.subs[k] = "FCCSWGridPhiEta"

\* the part of initialize after the noise table is read
ResolveSegmentation(o) ==
  LET first == CastPhiEta(readout)
      multi == CastMulti(readout)
  IN IF ~svc.cellPositionsTool /\ ~m_useSeg /\ first = NullPtr
       THEN InitOutcome("FAILURE", "SUCCESS", o, first, NullPtr)
     ELSE IF first # NullPtr
       THEN InitOutcome(IF svc.gaudiTool THEN "SUCCESS" ELSE "FAILURE",
                        "SUCCESS", o, first, NullPtr)
     ELSE IF multi = NullPtr
       THEN InitOutcome("FAILURE", "SUCCESS", o, NullPtr, NullPtr)
     ELSE IF ~OnlyPhiEtaSubs(multi)
       THEN InitOutcome("FAILURE", "SUCCESS", o, NullPtr, multi)
     ELSE InitOutcome(IF svc.gaudiTool THEN "SUCCESS" ELSE "FAILURE",
                      "SUCCESS", o, NullPtr, multi)

NothingRead == LoopOutcome("FAILURE", <<>>, <<>>)

\* initialize: the set of outcomes it may end in
InitializeOutcomes ==
  IF ~svc.geoSvc \/ ~svc.randSvc \/ ~svc.gauss
    THEN {InitOutcome("FAILURE", "none", NothingRead, NullPtr, NullPtr)}
  ELSE { IF o.status = "SUCCESS" THEN ResolveSegmentation(o)
         ELSE InitOutcome(o.status, o.status, o, NullPtr, NullPtr)
         : o \in InitNoiseFromFile }

Initialize ==
  /\ initStatus = "none"
  /\ \E r \in InitializeOutcomes :
       /\ initStatus' = r.status
       /\ noiseStatus' = r.noise
       /\ m_histoElecNoiseConst' = r.elec
       /\ m_histoPileupConst' = r.pile
       /\ m_segmentationPhiEta' = r.phiEta
       /\ m_segmentationMulti' = r.multi
  /\ UNCHANGED <<props, world, walk, est>>


\* -------------------------------------------------- getNoiseConstantPerCell
NoLayer == 0 - 1

\* how the cell's eta is had: from the segmentation when m_useSeg, else from the
\* cell positions tool.  A null m_segmentationPhiEta is dereferenced (a fault, or
\* whatever value the read yields); a tool that cannot be retrieved throws.
GarbageEtas == {0, EtaMax}
EtaOutcomes(cID) ==
  IF m_useSeg
    THEN IF m_segmentationPhiEta = NullPtr
           THEN {[ok |-> FALSE, eta |-> 0]} \cup {[ok |-> TRUE, eta |-> e] : e \in GarbageEtas}
           ELSE {[ok |-> TRUE, eta |-> CellEta(cID)]}
  ELSE IF svc.cellPositionsTool THEN {[ok |-> TRUE, eta |-> CellEta(cID)]}
  ELSE {[ok |-> FALSE, eta |-> 0]}

\* the eta bin of the cell, from the binning of the first layer's histogram h0
BinIndex(cellEta, h0) ==
  LET Nbins == GetNbinsX(h0)
      deltaEtaBin == (GetBinLowEdge(h0, Nbins) + GetBinWidth(h0, Nbins)
                      - GetBinLowEdge(h0, 1)) \div Nbins
      etaFirtsBin == GetBinLowEdge(h0, 1)
      ibin == ((Abs(cellEta) - etaFirtsBin) \div deltaEtaBin) + 1
  IN IF ibin > Nbins THEN Nbins ELSE ibin

\* a fallback to the last layer that has histograms, as the debug message words it
LayerReadLast(cellLayer, nLayers) ==
  IF cellLayer < nLayers THEN cellLayer ELSE nLayers - 1

\* the layer whose histograms are read for a cell of layer cellLayer, NoLayer when
\* there are more layers than noise histograms
LayerRead(cellLayer, nLayers) == IF cellLayer < nLayers THEN cellLayer ELSE NoLayer

\* the sum of squares without the square root
TotalNoiseNoSqrt(elecNoise, pileupNoise) == Pow2(elecNoise) + Pow2(pileupNoise)

\* Total noise: electronics noise + pileup
TotalNoise(elecNoise, pileupNoise) == Sqrt(Pow2(elecNoise) + Pow2(pileupNoise))

\* the body of getNoiseConstantPerCell once cellEta and cellLayer are had
GetNoiseConstantPerCell(cellEta, cellLayer) ==
  IF Len(m_histoElecNoiseConst) # 0
    THEN LET ibin == BinIndex(cellEta, m_histoElecNoiseConst[1])
             layer == LayerRead(cellLayer, Len(m_histoElecNoiseConst))
             elecNoise == IF layer # NoLayer
                            THEN GetBinContent(m_histoElecNoiseConst[layer + 1], ibin)
                            ELSE 0
             pileupNoise == IF layer # NoLayer /\ m_addPileup
                              THEN GetBinContent(m_histoPileupConst[layer + 1], ibin)
                              ELSE 0
         IN [ibin |-> ibin, readLayer |-> layer,
             readPileup |-> (layer # NoLayer /\ m_addPileup),
             elecNoise |-> elecNoise, pileupNoise |-> pileupNoise,
             totalNoise |-> TotalNoise(elecNoise, pileupNoise)]
    ELSE [ibin |-> 0, readLayer |-> NoLayer, readPileup |-> FALSE,
          elecNoise |-> 0, pileupNoise |-> 0, totalNoise |-> TotalNoise(0, 0)]

NoCall == [outcome |-> "none", cell |-> 0, eta |-> 0, layer |-> 0, ibin |-> 0,
           readLayer |-> NoLayer, readPileup |-> FALSE, elecNoise |-> 0,
           pileupNoise |-> 0, value |-> 0]

CallRecord(cID, e) ==
  IF ~e.ok THEN [NoCall EXCEPT !.outcome = "failed", !.cell = cID]
  ELSE LET r == GetNoiseConstantPerCell(e.eta, DecodeLayer(cID))
       IN [outcome |-> "returned", cell |-> cID, eta |-> e.eta,
           layer |-> DecodeLayer(cID), ibin |-> r.ibin, readLayer |-> r.readLayer,
           readPileup |-> r.readPileup, elecNoise |-> r.elecNoise,
           pileupNoise |-> r.pileupNoise, value |-> r.totalNoise]

Ready == initStatus = "SUCCESS" /\ pc = "idle"

\* a direct call of getNoiseConstantPerCell; a fault or an exception ends the run.
\* est, and cells0, log and done below, record the last call made of the tool:
\* each call starts them afresh.  No method changes what getNoiseConstantPerCell
\* reads once initialize has returned, so the direct call is explored as the first
\* call; the calls the transforms make come after it.
Estimate ==
  /\ Ready
  /\ nOps = 0
  /\ \E cID \in CellIds : \E e \in EtaOutcomes(cID) :
       /\ est' = CallRecord(cID, e)
       /\ pc' = IF e.ok THEN pc ELSE "dead"
  /\ order' = <<>>
  /\ it' = 1
  /\ cells0' = <<>>
  /\ log' = <<>>
  /\ done' = "none"
  /\ nOps' = nOps + 1
  /\ UNCHANGED <<props, world, table, aCells>>

\* ------------------------------------------------------ the two transforms
Samples == {0 - 1, 2}      \* what m_gauss.shoot() may return

\* the orders in which an unordered_map of these keys may be iterated
Orders(keys) ==
  {o \in [1 .. Cardinality(keys) -> keys] : \A i, j \in DOMAIN o : o[i] = o[j] => i = j}

Without(f, key) == [k \in (DOMAIN f) \ {key} |-> f[k]]

RemoveAt(o, i) == [j \in 1 .. (Len(o) - 1) |-> IF j < i THEN o[j] ELSE o[j + 1]]

LogEntry(key, noise, sample, pred) ==
  [key |-> key, noise |-> noise, sample |-> sample, pred |-> pred]

\* p.second = noise * sample: the energy is overwritten
AddNoiseAssign(energy, noise, sample) == noise * sample

\* p.second += noise * sample
AddNoise(energy, noise, sample) == energy + noise * sample

\* p.second < m_filterThreshold * noise
BelowThreshold(energy, noise) == energy < m_filterThreshold * noise

\* erase, then one more increment: the successor of the erased node is stepped over
EraseAdvanceSkip(o, i) == [order |-> RemoveAt(o, i), it |-> i + 1]

\* aCells.erase(it++): the node at i leaves the list, the iterator is on its successor
EraseAdvance(o, i) == [order |-> RemoveAt(o, i), it |-> i]

StartWalk(op) ==
  /\ Ready
  /\ nOps < MaxOps
  /\ \E o \in Orders(DOMAIN aCells) : order' = o
  /\ it' = 1
  /\ cells0' = aCells
  /\ log' = <<>>
  /\ done' = "none"
  /\ nOps' = nOps + 1
  /\ pc' = op
  /\ est' = NoCall
  /\ UNCHANGED <<props, world, table, aCells>>

\* addRandomCellNoise is called: std::for_each starts at begin()
AddRandomCellNoise == StartWalk("addRandomCellNoise")

\* the lambda of addRandomCellNoise on the entry at it
ForEachStep ==
  /\ pc = "addRandomCellNoise"
  /\ it <= Len(order)
  /\ \E e \in EtaOutcomes(order[it]) : \E g \in Samples :
       LET key == order[it]
           r == CallRecord(key, e)
       IN IF ~e.ok
            THEN /\ pc' = "dead"
                 /\ UNCHANGED <<aCells, it, log>>
            ELSE /\ aCells' = [aCells EXCEPT ![key] = AddNoise(@, r.value, g)]
                 /\ log' = Append(log, LogEntry(key, r.value, g, FALSE))
                 /\ it' = it + 1
                 /\ pc' = pc
  /\ UNCHANGED <<props, world, table, order, cells0, done, nOps, est>>

\* std::for_each reached end(): addRandomCellNoise returns
ForEachReturn ==
  /\ pc = "addRandomCellNoise"
  /\ it > Len(order)
  /\ pc' = "idle"
  /\ done' = "addRandomCellNoise"
  /\ UNCHANGED <<props, world, table, aCells, order, it, cells0, log, nOps, est>>

\* filterCellNoise is called: it = aCells.begin()
FilterCellNoise == StartWalk("filterCellNoise")

\* std::find_if evaluates the predicate on the entry at it; when it holds the
\* entry is erased with erase(it++), else find_if moves on
FindIfStep ==
  /\ pc = "filterCellNoise"
  /\ it <= Len(order)
  /\ \E e \in EtaOutcomes(order[it]) :
       LET key == order[it]
           r == CallRecord(key, e)
           hit == BelowThreshold(aCells[key], r.value)
           next == EraseAdvance(order, it)
       IN IF ~e.ok
            THEN /\ pc' = "dead"
                 /\ UNCHANGED <<aCells, order, it, log>>
            ELSE /\ log' = Append(log, LogEntry(key, r.value, 0, hit))
                 /\ aCells' = IF hit THEN Without(aCells, key) ELSE aCells
                 /\ order' = IF hit THEN next.order ELSE order
                 /\ it' = IF hit THEN next.it ELSE it + 1
                 /\ pc' = pc
  /\ UNCHANGED <<props, world, table, cells0, done, nOps, est>>

\* find_if returned end(): filterCellNoise returns
FilterReturn ==
  /\ pc = "filterCellNoise"
  /\ it > Len(order)
  /\ pc' = "idle"
  /\ done' = "filterCellNoise"
  /\ UNCHANGED <<props, world, table, aCells, order, it, cells0, log, nOps, est>>

\* ---------------------------------------------------------------- inputs
AllOk == [geoSvc |-> TRUE, randSvc |-> TRUE, gauss |-> TRUE,
          cellPositionsTool |-> TRUE, gaudiTool |-> TRUE]

SvcChoices ==
  {AllOk} \cup {[AllOk EXCEPT ![f] = FALSE] : f \in DOMAIN AllOk}

ReadoutChoices ==
  {GridPhiEta, OtherGrid,
   Multi(<<"FCCSWGridPhiEta", "FCCSWGridPhiEta">>),
   Multi(<<"FCCSWGridPhiEta", "CartesianGridXY">>)}

\* a file whose first electronic histogram has n0 bins, the other electronic ones
\* nO bins and the pileup ones nP bins (below 0: not in the file), all on the axis
\* starting at x with bins of width w, the electronic contents of sign s
FileOf(n0, nO, nP, x, w, s, zombie) ==
  [zombie |-> zombie,
   objects |-> [nm \in HistoNames |->
     LET layer == nm[2] - 1
         n == IF nm[1] = "pileup" THEN nP ELSE IF layer = 0 THEN n0 ELSE nO
     IN IF n < 0 THEN NoObject
        ELSE IF nm[1] = "elec" THEN ElecHisto(layer, n, x, w, s)
        ELSE PileupHisto(layer, n, x, w)]]

Energies == {5, 13}
Thresholds == {0, 3}
WalkCells == {CellId(1, 0), CellId(EtaMax, 0), CellId(0, MaxLayers)}
CellMaps == UNION {[S -> Energies] : S \in SUBSET WalkCells}

\* tables: every binning of a readable file, one segmentation
TableInputs ==
  [layers : 1 .. MaxLayers, pileup : BOOLEAN, useSeg : {FALSE}, thr : {3},
   fname : {"noise.root"}, zombie : {FALSE},
   n0 : 1 .. MaxBins, nO : 1 .. MaxBins, nP : 1 .. MaxBins,
   x : {0, 1}, w : {1, 2}, s : {1, 0 - 1},
   readout : {GridPhiEta}, svc : {AllOk}, cells : {<<>>}]

\* files with missing and empty histograms
FileInputs ==
  [layers : 0 .. MaxLayers, pileup : BOOLEAN, useSeg : {FALSE}, thr : {3},
   fname : {"", "noise.root"}, zombie : BOOLEAN,
   n0 : (0 - 1) .. 1, nO : (0 - 1) .. 1, nP : (0 - 1) .. 1,
   x : {0}, w : {1}, s : {1},
   readout : {GridPhiEta}, svc : {AllOk}, cells : {<<>>}]

\* services, tools and segmentations
GeometryInputs ==
  [layers : {1}, pileup : {FALSE}, useSeg : BOOLEAN, thr : {3},
   fname : {"noise.root"}, zombie : {FALSE},
   n0 : {MaxBins}, nO : {MaxBins}, nP : {MaxBins},
   x : {0}, w : {2}, s : {1},
   readout : ReadoutChoices, svc : SvcChoices, cells : {<<>>}]

\* cell maps
WalkInputs ==
  {p \in [layers : {1}, pileup : {FALSE}, useSeg : BOOLEAN, thr : Thresholds,
           fname : {"noise.root"}, zombie : {FALSE},
           n0 : {MaxBins}, nO : {MaxBins}, nP : {MaxBins},
           x : {0}, w : {2}, s : {1},
           readout : {GridPhiEta, Multi(<<"FCCSWGridPhiEta", "FCCSWGridPhiEta">>)},
           svc : {AllOk}, cells : CellMaps] :
     p.useSeg <=> p.readout # GridPhiEta}

Inputs == TableInputs \cup FileInputs \cup GeometryInputs \cup WalkInputs

\* the state after construction, before initialize
Init ==
  \E p \in Inputs :
    /\ m_numRadialLayers = p.layers
    /\ m_addPileup = p.pileup
    /\ m_useSeg = p.useSeg
    /\ m_filterThreshold = p.thr
    /\ m_noiseFileName = p.fname
    /\ noiseFile = FileOf(p.n0, p.nO, p.nP, p.x, p.w, p.s, p.zombie)
    /\ readout = p.readout
    /\ svc = p.svc
    /\ m_histoElecNoiseConst = <<>>
    /\ m_histoPileupConst = <<>>
    /\ m_segmentationPhiEta = NullPtr
    /\ m_segmentationMulti = NullPtr
    /\ noiseStatus = "none"
    /\ initStatus = "none"
    /\ aCells = p.cells
    /\ pc = "idle"
    /\ order = <<>>
    /\ it = 1
    /\ cells0 = <<>>
    /\ log = <<>>
    /\ done = "none"
    /\ nOps = 0
    /\ est = NoCall

Next ==
  \/ Initialize
  \/ Estimate
  \/ AddRandomCellNoise
  \/ ForEachStep
  \/ ForEachReturn
  \/ FilterCellNoise
  \/ FindIfStep
  \/ FilterReturn

Spec == Init /\ [][Next]_vars


\* ---------------------------------------------------------------- claims
\* the noise of a cell whose eta the geometry yields
Noise(cID) == GetNoiseConstantPerCell(CellEta(cID), DecodeLayer(cID)).totalNoise

\* the eta of every cell is had without a fault or an exception
EtaResolved == \A cID \in CellIds : \A e \in EtaOutcomes(cID) : e.ok /\ e.eta = CellEta(cID)

Evals(key) == {i \in 1 .. Len(log) : log[i].key = key}

Returned == est.outcome = "returned"
ElecOf(layer) == m_histoElecNoiseConst[layer + 1]
PileupOf(layer) == m_histoPileupConst[layer + 1]
UpperEdge(h) == GetBinLowEdge(h, GetNbinsX(h)) + GetBinWidth(h, GetNbinsX(h))

\* C1: when filterCellNoise has returned, every entry of the map it was called on
\* was evaluated exactly once, the entries left are exactly those whose energy was
\* not below m_filterThreshold times the cell's noise, each with its energy
\* unchanged, and the size is N minus the number of entries removed.
C1_FilterRemovesExactly ==
  done = "filterCellNoise" =>
    /\ Len(log) = Cardinality(DOMAIN cells0)
    /\ \A k \in DOMAIN cells0 : Cardinality(Evals(k)) = 1
    /\ DOMAIN aCells \subseteq DOMAIN cells0
    /\ \A i \in 1 .. Len(log) :
         LET k == log[i].key
         IN /\ k \in DOMAIN cells0
            /\ EtaResolved => log[i].noise = Noise(k)
            /\ k \in DOMAIN aCells <=> ~(cells0[k] < m_filterThreshold * log[i].noise)
            /\ k \in DOMAIN aCells => aCells[k] = cells0[k]
    /\ Cardinality(DOMAIN aCells) =
         Cardinality(DOMAIN cells0)
         - Cardinality({i \in 1 .. Len(log) :
                          cells0[log[i].key] < m_filterThreshold * log[i].noise})

\* filterCellNoise returned from a map of three entries, having erased two of them
C1_Witness ==
  /\ done = "filterCellNoise"
  /\ EtaResolved
  /\ Cardinality(DOMAIN cells0) = 3
  /\ Cardinality(DOMAIN aCells) = 1

\* C3: when addRandomCellNoise has returned, it made one draw per entry of the map,
\* visited every entry exactly once, left the key set as it was, and every energy
\* is the old energy plus the cell's noise times the sample drawn for that entry.
C3_InjectOncePerEntry ==
  done = "addRandomCellNoise" =>
    /\ DOMAIN aCells = DOMAIN cells0
    /\ Len(log) = Cardinality(DOMAIN cells0)
    /\ \A k \in DOMAIN cells0 : Cardinality(Evals(k)) = 1
    /\ \A i \in 1 .. Len(log) :
         LET k == log[i].key
         IN /\ k \in DOMAIN cells0
            /\ log[i].sample \in Samples
            /\ EtaResolved => log[i].noise = Noise(k)
            /\ aCells[k] = cells0[k] + log[i].noise * log[i].sample

\* addRandomCellNoise returned from a map of three entries, two of them changed
C3_Witness ==
  /\ done = "addRandomCellNoise"
  /\ EtaResolved
  /\ Cardinality(DOMAIN cells0) = 3
  /\ Cardinality({k \in DOMAIN cells0 : aCells[k] # cells0[k]}) = 2
  /\ \E i \in 1 .. Len(log) : log[i].sample < 0

C9_TotalIsElec ==
  (Returned /\ ~m_addPileup /\ est.layer < Len(m_histoElecNoiseConst)) =>
    est.value = GetBinContent(ElecOf(est.layer), BinIndex(est.eta, ElecOf(0)))

\* C9 amended: without pileup, the value returned equals the absolute value of the
\* electronic bin content read.
C9_TotalIsAbsElec ==
  (Returned /\ ~m_addPileup /\ est.layer < Len(m_histoElecNoiseConst)) =>
    est.value = Abs(GetBinContent(ElecOf(est.layer), BinIndex(est.eta, ElecOf(0))))

\* a call without pileup read a negative electronic bin content
C9_Witness ==
  /\ Returned
  /\ ~m_addPileup
  /\ est.layer < Len(m_histoElecNoiseConst)
  /\ est.elecNoise < 0
  /\ est.value > 0

\* every histogram of the table has as many bins as the first electronic one
UniformTable ==
  /\ \A l \in 1 .. Len(m_histoElecNoiseConst) :
       GetNbinsX(m_histoElecNoiseConst[l]) = GetNbinsX(m_histoElecNoiseConst[1])
  /\ \A l \in 1 .. Len(m_histoPileupConst) :
       GetNbinsX(m_histoPileupConst[l]) = GetNbinsX(m_histoElecNoiseConst[1])

\* C2: a call that has the cell's eta and layer reads the histograms of a layer of
\* the table only, at a bin index within 1 .. GetNbinsX() of the histogram read;
\* stated for the tables whose histograms all have the same number of bins.
C2_ReadsInRange ==
  (Returned /\ UniformTable /\ est.readLayer # NoLayer) =>
    /\ est.readLayer \in 0 .. (Len(m_histoElecNoiseConst) - 1)
    /\ est.ibin \in 1 .. GetNbinsX(ElecOf(est.readLayer))
    /\ est.readPileup =>
         /\ est.readLayer \in 0 .. (Len(m_histoPileupConst) - 1)
         /\ est.ibin \in 1 .. GetNbinsX(PileupOf(est.readLayer))

\* C4: for a cell of a layer that has histograms, with |eta| at or beyond the upper
\* edge of every histogram read, the value returned is the total of the last bin of
\* the layer's electronic histogram and, with pileup, of the last bin of its pileup
\* histogram.
C4_ClampsToLastBin ==
  (/\ Returned
   /\ est.layer < Len(m_histoElecNoiseConst)
   /\ Abs(est.eta) >= UpperEdge(ElecOf(0))
   /\ Abs(est.eta) >= UpperEdge(ElecOf(est.layer))
   /\ m_addPileup => Abs(est.eta) >= UpperEdge(PileupOf(est.layer))) =>
    LET he == ElecOf(est.layer)
        elec == GetBinContent(he, GetNbinsX(he))
        pileup == IF m_addPileup
                    THEN GetBinContent(PileupOf(est.layer), GetNbinsX(PileupOf(est.layer)))
                    ELSE 0
    IN est.value = TotalNoise(elec, pileup)

\* C6: when a histogram the loop asks for is not in the file, initNoiseFromFile
\* returns FAILURE.
MissingCurve ==
  \E i \in 0 .. (m_numRadialLayers - 1) :
    \/ noiseFile.objects[<<"elec", i + 1>>] = NoObject
    \/ m_addPileup /\ noiseFile.objects[<<"pileup", i + 1>>] = NoObject

C6_MissingCurveFails ==
  (noiseStatus # "none" /\ MissingCurve) => noiseStatus = "FAILURE"

\* C7: after initNoiseFromFile succeeded with pileup enabled there are as many
\* pileup histograms as electronic ones, and every layer's pileup histogram has as
\* many bins as its electronic histogram.
C7_PileupMatchesElec ==
  (noiseStatus = "SUCCESS" /\ m_addPileup) =>
    /\ Len(m_histoPileupConst) = Len(m_histoElecNoiseConst)
    /\ \A l \in 0 .. (Len(m_histoElecNoiseConst) - 1) :
         GetNbinsX(PileupOf(l)) = GetNbinsX(ElecOf(l))

\* C8: for a cell of a layer that has histograms, with |eta| inside the range of the
\* first layer's histogram, the bin index is the one bin k whose edges enclose
\* |eta|, and the value returned is the total of bin k of the layer's electronic
\* histogram and, with pileup, of bin k of its pileup histogram.
C8_OneBinPerCurve ==
  (/\ Returned
   /\ est.layer < Len(m_histoElecNoiseConst)
   /\ Abs(est.eta) >= GetBinLowEdge(ElecOf(0), 1)
   /\ Abs(est.eta) < UpperEdge(ElecOf(0))) =>
    LET h0 == ElecOf(0)
        Encloses(k) == /\ GetBinLowEdge(h0, k) <= Abs(est.eta)
                       /\ Abs(est.eta) < GetBinLowEdge(h0, k) + GetBinWidth(h0, k)
    IN /\ est.ibin \in 1 .. GetNbinsX(h0)
       /\ \A k \in 1 .. GetNbinsX(h0) : Encloses(k) <=> k = est.ibin
       /\ est.ibin \in 1 .. GetNbinsX(ElecOf(est.layer))
       /\ m_addPileup => est.ibin \in 1 .. GetNbinsX(PileupOf(est.layer))
       /\ est.value =
            TotalNoise(ElecOf(est.layer).content[est.ibin],
                       IF m_addPileup THEN PileupOf(est.layer).content[est.ibin] ELSE 0)

\* C10: when initialize returned SUCCESS with m_useSeg set, m_segmentationPhiEta,
\* which getNoiseConstantPerCell dereferences, is not null.
C10_SegmentationResolved ==
  (initStatus = "SUCCESS" /\ m_useSeg) => m_segmentationPhiEta # NullPtr

====
